---- MODULE Spec2Model ----
(***************************************************************************)
(* Model of easybuild/easyblocks/l/libsmm.py: the Libsmm easyblock, which  *)
(* builds the CP2K small matrix library.  The lifecycle hooks configure(), *)
(* make(), make_install() and sanitycheck() are modelled statement group   *)
(* by statement group; the framework services they call (run_cmd, the      *)
(* logger, get_software_root, Application.sanitycheck) live outside this   *)
(* file and are modelled at their interface.                               *)
(*                                                                         *)
(* Text is modelled as a sequence of one-character strings wherever the    *)
(* code formats or parses it (version strings, the dims lists).            *)
(***************************************************************************)
EXTENDS Integers, Sequences, FiniteSets, TLC

VARIABLES
    env,        \* process environment read by make(): os.getenv / get_software_root
    cfg,        \* easyconfig parameters read with getcfg / written with setcfg
    pc,         \* position of the lifecycle
    dt_idx,     \* index of the for loop of make() into datatypes
    stmt,       \* index of the next statement group of the loop body
    cfgdict,    \* the dict of make(): <<>> before it is built, <<dict>> after
    config_in,  \* content of the file config.in: <<>> no file, <<fields>>
    trace,      \* file writes and external commands, in the order they happened
    lib,        \* the directory lib of the build directory
    installed,  \* the directory lib of the install directory
    status,     \* "running", "ok" or "failed": how the lifecycle ended
    error,      \* the message of the error that ended it, "" when none
    missing,    \* paths the sanity check found missing
    make_ret    \* what make() returned: "pending" before it returns

vars == <<env, cfg, pc, dt_idx, stmt, cfgdict, config_in, trace, lib,
          installed, status, error, missing, make_ret>>

-----------------------------------------------------------------------------
(* Bounds of the model *)

\* largest max_tiny_dim drawn
MaxTinyDim == 12
\* longest version (number of dot-separated components) drawn
MaxVerLen == 2

-----------------------------------------------------------------------------
(* Text helpers: Python's str(int), ' '.join and range *)

Digits == <<"0", "1", "2", "3", "4", "5", "6", "7", "8", "9">>

IsDigit(c) == \E i \in 1..10 : Digits[i] = c

DigitVal(c) == (CHOOSE i \in 1..10 : Digits[i] = c) - 1

RECURSIVE str(_)
\* str(d) of a non-negative int: its decimal digits
str(d) == IF d < 10 THEN <<Digits[d + 1]>>
          ELSE str(d \div 10) \o <<Digits[(d % 10) + 1]>>

RECURSIVE join(_, _)
\* sep.join(items), items a sequence of texts
join(sep, items) ==
    IF Len(items) = 0 THEN <<>>
    ELSE IF Len(items) = 1 THEN items[1]
    ELSE items[1] \o sep \o join(sep, Tail(items))

\* the off-by-one variant of range: stops one short
range_short(a, b) == [i \in 1..(IF b - 1 > a THEN b - 1 - a ELSE 0) |-> a + i - 1]

\* range(a, b): a, a+1, ..., b-1
range(a, b) == [i \in 1..(IF b > a THEN b - a ELSE 0) |-> a + i - 1]

\* ' '.join([str(d) for d in ds])
join_ints(ds) == join(<<" ">>, [i \in 1..Len(ds) |-> str(ds[i])])

-----------------------------------------------------------------------------
(* distutils.version.LooseVersion as make() uses it *)

RECURSIVE parse_from(_, _, _, _)
\* LooseVersion.parse for texts of digits and dots: the maximal digit runs,
\* each converted with int(); cur is the run being read (<<>> when none)
parse_from(v, i, cur, acc) ==
    IF i > Len(v) THEN (IF cur = <<>> THEN acc ELSE acc \o cur)
    ELSE IF IsDigit(v[i])
         THEN parse_from(v, i + 1,
                         <<(IF cur = <<>> THEN 0 ELSE cur[1] * 10) + DigitVal(v[i])>>,
                         acc)
         ELSE parse_from(v, i + 1, <<>>, IF cur = <<>> THEN acc ELSE acc \o cur)

parse(vstring) == parse_from(vstring, 1, <<>>, <<>>)

RECURSIVE list_cmp(_, _)
\* Python's cmp of two lists of ints: -1, 0 or 1
list_cmp(a, b) ==
    IF Len(a) = 0 /\ Len(b) = 0 THEN 0
    ELSE IF Len(a) = 0 THEN 0 - 1
    ELSE IF Len(b) = 0 THEN 1
    ELSE IF a[1] < b[1] THEN 0 - 1
    ELSE IF a[1] > b[1] THEN 1
    ELSE list_cmp(Tail(a), Tail(b))

\* character code, for comparing texts as plain strings
Ord(c) == IF c = "." THEN 46 ELSE 48 + DigitVal(c)

RECURSIVE text_cmp(_, _)
text_cmp(a, b) ==
    IF Len(a) = 0 /\ Len(b) = 0 THEN 0
    ELSE IF Len(a) = 0 THEN 0 - 1
    ELSE IF Len(b) = 0 THEN 1
    ELSE IF Ord(a[1]) < Ord(b[1]) THEN 0 - 1
    ELSE IF Ord(a[1]) > Ord(b[1]) THEN 1
    ELSE text_cmp(Tail(a), Tail(b))

\* the version threshold of make(): '4.6'
lto_threshold == <<"4", ".", "6">>

\* the comparison done on the raw strings instead of on LooseVersion objects
gcc_needs_extra_as_text(vstring) == text_cmp(vstring, lto_threshold) >= 0

\* LooseVersion(vstring) >= LooseVersion('4.6')
gcc_needs_extra(vstring) == list_cmp(parse(vstring), parse(lto_threshold)) >= 0

\* extra = '' ; if gccVersion >= LooseVersion('4.6'): extra = "-flto"
extra_opts(vstring) == IF gcc_needs_extra(vstring) THEN "-flto" ELSE ""

opts == "-O2 -funroll-loops -ffast-math -ftree-vectorize -march=native -fno-inline-functions"

\* "%s %s %s" % (hostcompile, opts, extra), kept as its three parts
targetcompile(hostcompile, vstring) == <<hostcompile, opts, extra_opts(vstring)>>

-----------------------------------------------------------------------------
(* The BLAS probe of make() *)

blas_libs == <<"ACML", "ATLAS", "IMKL">>

\* get_software_root(name): the installation root, or nothing
get_software_root(name, roots) == name \in roots

\* the probe with blas_found initialised to True
blas_found_init_true(roots) == TRUE

\* blas_found after the loop over blas_libs
blas_found(roots) == \E i \in 1..Len(blas_libs) : get_software_root(blas_libs[i], roots)

\* the two flags in the wrong order
LIBBLAS_swapped(e) == <<e.LIBBLAS, e.LDFLAGS>>

\* 'LIBBLAS': "%s %s" % (os.getenv('LDFLAGS'), os.getenv('LIBBLAS'))
LIBBLAS_entry(e) == <<e.LDFLAGS, e.LIBBLAS>>

-----------------------------------------------------------------------------
(* cfgdict and the template *)

\* max_tiny_dim itself left out of the list
tiny_dims_short(k) == join_ints(range_short(1, k + 1))

\* 'tiny_dims': ' '.join([str(d) for d in range(1, max_tiny_dim+1)])
tiny_dims(k) == join_ints(range(1, k + 1))

\* cfgdict as built before the loop; 'datatype': None is the empty sequence
make_cfgdict(e, c) ==
    [ datatype         |-> <<>>,
      transposeflavour |-> c.transpose_flavour,
      targetcompile    |-> targetcompile(e.F90, e.SOFTVERSIONGCC),
      hostcompile      |-> e.F90,
      dims             |-> join_ints(c.dims),
      tiny_dims        |-> tiny_dims(c.max_tiny_dim),
      tasks            |-> c.parallel,
      LIBBLAS          |-> LIBBLAS_entry(e) ]

datatypes == <<1, 3>>

\* the assignment that keeps the first datatype for every iteration
set_datatype_first(d, dt) == [d EXCEPT !.datatype = <<datatypes[1]>>]

\* cfgdict['datatype'] = dt
set_datatype(d, dt) == [d EXCEPT !.datatype = <<dt>>]

\* txt = cfg_tpl % cfgdict: the key=value lines of the template
render(d) ==
    [ transpose_flavor |-> str(d.transposeflavour),
      data_type        |-> str(d.datatype[1]),
      target_compile   |-> d.targetcompile,
      OMP_NUM_THREADS  |-> <<"1">>,
      blas_linking     |-> d.LIBBLAS,
      dims_small       |-> d.dims,
      dims_tiny        |-> d.tiny_dims,
      host_compile     |-> <<d.hostcompile, " ">>,
      tasks            |-> str(d.tasks) ]

-----------------------------------------------------------------------------
(* Framework services, at their interface *)

\* self.log.error(msg) / self.log.exception(msg): raises, ending the lifecycle
log_error(msg) ==
    /\ pc' = "done"
    /\ status' = "failed"
    /\ error' = msg

\* run_cmd(cmd): runs the command to its end and returns its exit status
run_cmd(cmd, dt, rc) ==
    trace' = Append(trace, [ev |-> cmd, dt |-> dt, rc |-> rc, config |-> config_in])

\* the artifact ./do_all leaves in lib for a data type
artifact(dt) == IF dt = 1 THEN "dnn" ELSE "znn"

\* what ./do_all does to the directory lib
do_all_effect(dt, effect) ==
    CASE effect = "nothing"  -> lib
      [] effect = "libdir"   -> [lib EXCEPT !.exists = TRUE]
      [] effect = "artifact" -> [exists |-> TRUE, files |-> lib.files \cup {artifact(dt)}]

\* "lib/libsmm_%s.a" % x, kept as its parts
lib_path(x) == <<"lib/libsmm_", x, ".a">>

\* os.path.exists of a path under the install directory
path_exists(p, inst) ==
    /\ inst.exists
    /\ \E x \in inst.files : p = lib_path(x)

\* Application.sanitycheck: the configured files that do not exist
missing_paths(paths, inst) ==
    SelectSeq(paths.files, LAMBDA p : ~path_exists(p, inst))

-----------------------------------------------------------------------------
(* sanitycheck() *)

NoPaths == [files |-> <<>>, dirs |-> <<>>]

\* only the double precision real library
custom_paths_dnn_only == [files |-> <<lib_path("dnn")>>, dirs |-> <<>>]

\* {'files': ["lib/libsmm_%s.a" % x for x in ["dnn", "znn"]], 'dirs': []}
custom_paths == [files |-> <<lib_path("dnn"), lib_path("znn")>>, dirs |-> <<>>]

\* if not self.getcfg('sanityCheckPaths'): self.setcfg('sanityCheckPaths', ...)
effective_paths(c) ==
    IF c.sanityCheckPaths = NoPaths THEN custom_paths ELSE c.sanityCheckPaths

-----------------------------------------------------------------------------
(* Order of the statement groups in the body of the for loop of make() *)

\* the clean step placed before the config file is written
loop_body_clean_first == <<"clean", "write", "build">>

\* write config.in; run_cmd("./do_clean"); run_cmd("./do_all")
loop_body == <<"write", "clean", "build">>

\* a non-zero exit status of ./do_clean treated as an error
clean_aborts_on_failure(rc) == rc # 0

\* run_cmd("./do_clean"): the return value is not used
clean_aborts(rc) == FALSE

\* run_cmd("./do_all"): the return value is not used
build_aborts(rc) == FALSE

\* the statuses a return value of make() carries: None carries none
statuses_in(ret) == {}

-----------------------------------------------------------------------------
(* Inputs *)

ExitCodes == {0, 1}

VersionComps == {0, 4, 5, 6, 10}

\* texts of the versions with up to n components: "4", "4.6", "4.10", ...
VersionTexts(n) ==
    { join(<<".">>, [i \in 1..Len(s) |-> str(s[i])]) :
        s \in UNION { [1..m -> VersionComps] : m \in 1..n } }

BlasFlags == {"-lacml", "-latlas", "-lmkl"}

DefaultDims == <<1, 4, 5, 6, 9, 13, 16, 17, 22>>

UserPaths == [files |-> <<lib_path("dnn")>>, dirs |-> <<>>]

InitWith(versions, tinys, rootsets, blasflags, pathsets) ==
    /\ env \in [ SOFTROOTGCC    : BOOLEAN,
                 SOFTVERSIONGCC : versions,
                 F90            : {"gfortran"},
                 LDFLAGS        : {"-L/lib"},
                 LIBBLAS        : blasflags,
                 roots          : rootsets ]
    /\ cfg \in [ transpose_flavour : {1},
                 max_tiny_dim      : tinys,
                 dims              : {DefaultDims},
                 parallel          : {4},
                 sanityCheckPaths  : pathsets ]
    /\ pc = "configure"
    /\ dt_idx = 1
    /\ stmt = 1
    /\ cfgdict = <<>>
    /\ config_in = <<>>
    /\ trace = <<>>
    /\ lib = [exists |-> FALSE, files |-> {}]
    /\ installed = [exists |-> FALSE, files |-> {}]
    /\ status = "running"
    /\ error = ""
    /\ missing = <<>>
    /\ make_ret = "pending"

AllRoots == SUBSET {"ACML", "ATLAS", "IMKL"}

\* orchestration: every backend situation, two versions around the threshold
Init == InitWith({<<"4", ".", "5">>, <<"4", ".", "6">>}, {12},
                 AllRoots, BlasFlags, {NoPaths, UserPaths})

\* every version text, the rest fixed
InitVersions == InitWith(VersionTexts(MaxVerLen), {12},
                         {{}, {"ATLAS"}}, {"-latlas"}, {NoPaths})

\* every max_tiny_dim, the rest fixed
InitTiny == InitWith({<<"4", ".", "6">>}, 1..MaxTinyDim,
                     {{}, {"ATLAS"}}, {"-latlas"}, {NoPaths})

-----------------------------------------------------------------------------
(* Actions *)

\* configure(): os.chdir('tools/build_libsmm')
Configure ==
    /\ pc = "configure"
    /\ \E chdir_ok \in BOOLEAN :
         IF chdir_ok
         THEN /\ pc' = "make"
              /\ UNCHANGED <<status, error>>
         ELSE log_error("Failed to change to directory")
    /\ UNCHANGED <<env, cfg, dt_idx, stmt, cfgdict, config_in, trace, lib,
                   installed, missing, make_ret>>

\* make() up to the for loop: compiler, BLAS probe, cfgdict
MakeResolve ==
    /\ pc = "make"
    /\ IF ~env.SOFTROOTGCC
       THEN /\ log_error("No supported compiler found (tried GCC)")
            /\ UNCHANGED cfgdict
       ELSE IF ~blas_found(env.roots)
       THEN /\ log_error("No known BLAS library found!")
            /\ UNCHANGED cfgdict
       ELSE /\ cfgdict' = <<make_cfgdict(env, cfg)>>
            /\ pc' = "loop"
            /\ UNCHANGED <<status, error>>
    /\ UNCHANGED <<env, cfg, dt_idx, stmt, config_in, trace, lib,
                   installed, missing, make_ret>>

\* the end of a statement group of the loop body: the next group, the next
\* datatype, or the return of make()
Advance ==
    IF stmt < Len(loop_body)
    THEN /\ stmt' = stmt + 1
         /\ UNCHANGED <<dt_idx, pc, make_ret>>
    ELSE IF dt_idx < Len(datatypes)
    THEN /\ stmt' = 1
         /\ dt_idx' = dt_idx + 1
         /\ UNCHANGED <<pc, make_ret>>
    ELSE /\ pc' = "make_install"
         /\ make_ret' = "None"
         /\ UNCHANGED <<stmt, dt_idx>>

\* cfgdict['datatype'] = dt; open(fn, 'w'); f.write(cfg_tpl % cfgdict)
WriteConfig ==
    /\ pc = "loop"
    /\ loop_body[stmt] = "write"
    /\ cfgdict' = <<set_datatype(cfgdict[1], datatypes[dt_idx])>>
    /\ \E io_ok \in BOOLEAN :
         IF io_ok
         THEN /\ config_in' = <<render(cfgdict'[1])>>
              /\ trace' = Append(trace, [ev |-> "write", dt |-> datatypes[dt_idx],
                                         rc |-> 0, config |-> config_in'])
              /\ Advance
              /\ UNCHANGED <<status, error>>
         ELSE /\ log_error("Failed to write config.in")
              /\ UNCHANGED <<config_in, trace, stmt, dt_idx, make_ret>>
    /\ UNCHANGED <<env, cfg, lib, installed, missing>>

\* run_cmd("./do_clean") in the loop
DoClean ==
    /\ pc = "loop"
    /\ loop_body[stmt] = "clean"
    /\ \E rc \in ExitCodes :
         /\ run_cmd("./do_clean", datatypes[dt_idx], rc)
         /\ IF clean_aborts(rc)
            THEN /\ log_error("cmd ./do_clean exited with non-zero status")
                 /\ UNCHANGED <<stmt, dt_idx, make_ret>>
            ELSE /\ Advance
                 /\ UNCHANGED <<status, error>>
    /\ UNCHANGED <<env, cfg, cfgdict, config_in, lib, installed, missing>>

\* run_cmd("./do_all")
DoAll ==
    /\ pc = "loop"
    /\ loop_body[stmt] = "build"
    /\ \E rc \in ExitCodes, effect \in {"nothing", "libdir", "artifact"} :
         /\ run_cmd("./do_all", datatypes[dt_idx], rc)
         /\ lib' = do_all_effect(datatypes[dt_idx], effect)
         /\ IF build_aborts(rc)
            THEN /\ log_error("cmd ./do_all exited with non-zero status")
                 /\ UNCHANGED <<stmt, dt_idx, make_ret>>
            ELSE /\ Advance
                 /\ UNCHANGED <<status, error>>
    /\ UNCHANGED <<env, cfg, cfgdict, config_in, installed, missing>>

\* make_install(): run_cmd("./do_clean")
InstallClean ==
    /\ pc = "make_install"
    /\ \E rc \in ExitCodes : run_cmd("./do_clean", 0, rc)
    /\ pc' = "copytree"
    /\ UNCHANGED <<env, cfg, dt_idx, stmt, cfgdict, config_in, lib, installed,
                   status, error, missing, make_ret>>

\* make_install(): shutil.copytree('lib', installdir/lib)
CopyTree ==
    /\ pc = "copytree"
    /\ \E copy_ok \in BOOLEAN :
         IF lib.exists /\ copy_ok
         THEN /\ installed' = lib
              /\ trace' = Append(trace, [ev |-> "copytree", dt |-> 0, rc |-> 0,
                                         config |-> config_in])
              /\ pc' = "sanitycheck"
              /\ UNCHANGED <<status, error>>
         ELSE /\ log_error("Something went wrong during dir lib copying to installdir")
              /\ UNCHANGED <<installed, trace>>
    /\ UNCHANGED <<env, cfg, dt_idx, stmt, cfgdict, config_in, lib, missing, make_ret>>

\* sanitycheck()
SanityCheck ==
    /\ pc = "sanitycheck"
    /\ cfg' = [cfg EXCEPT !.sanityCheckPaths = effective_paths(cfg)]
    /\ missing' = missing_paths(cfg'.sanityCheckPaths, installed)
    /\ pc' = "done"
    /\ IF missing' = <<>>
       THEN /\ status' = "ok"
            /\ UNCHANGED error
       ELSE /\ status' = "failed"
            /\ error' = "Sanity check failed"
    /\ UNCHANGED <<env, dt_idx, stmt, cfgdict, config_in, trace, lib, installed, make_ret>>

Next ==
    \/ Configure
    \/ MakeResolve
    \/ WriteConfig
    \/ DoClean
    \/ DoAll
    \/ InstallClean
    \/ CopyTree
    \/ SanityCheck

Spec == Init /\ [][Next]_vars

SpecVersions == InitVersions /\ [][Next]_vars

SpecTiny == InitTiny /\ [][Next]_vars

-----------------------------------------------------------------------------
(* Vocabulary of the properties *)

Candidates == {blas_libs[i] : i \in 1..Len(blas_libs)}

Discoverable == env.roots \cap Candidates

\* positions of the trace holding an event of a kind
Events(ev) == {i \in DOMAIN trace : trace[i].ev = ev}

\* the events of the trace without their payload
Shape == [i \in DOMAIN trace |-> <<trace[i].ev, trace[i].dt>>]

\* make() has run to its return statement
MakeReturned == make_ret # "pending"

\* the sanity check has been executed
SanityRan == pc = "done" /\ trace # <<>> /\ trace[Len(trace)].ev = "copytree"

\* the two artifacts of the representation families, in checking order
ExpectedArtifacts == <<lib_path("dnn"), lib_path("znn")>>

ExpectedMissing(inst) ==
    SelectSeq(ExpectedArtifacts, LAMBDA p : ~(inst.exists /\ \E x \in inst.files : p = <<"lib/libsmm_", x, ".a">>))

\* the link flags that belong to a backend
backend_flags(b) ==
    CASE b = "ACML" -> "-lacml" [] b = "ATLAS" -> "-latlas" [] b = "IMKL" -> "-lmkl"

\* the first discoverable candidate in ranked order
FirstDiscoverable ==
    blas_libs[CHOOSE i \in 1..Len(blas_libs) :
                /\ blas_libs[i] \in env.roots
                /\ \A j \in 1..(i - 1) : blas_libs[j] \notin env.roots]

\* numeric reading of a version text: major.minor at least 4.6
AtLeast46(v) ==
    LET p == parse(v)
        major == p[1]
        minor == IF Len(p) >= 2 THEN p[2] ELSE 0
    IN  major > 4 \/ (major = 4 /\ minor >= 6)

RECURSIVE SplitInts(_, _, _)
\* the integers of a space-separated text; a 0 stands for a malformed piece
\* (empty piece, leading or trailing space, a character that is no digit)
SplitInts(t, i, cur) ==
    IF i > Len(t) THEN (IF cur = <<>> THEN <<0>> ELSE cur)
    ELSE IF t[i] = " "
         THEN (IF cur = <<>> THEN <<0>> ELSE cur \o SplitInts(t, i + 1, <<>>))
         ELSE IF ~IsDigit(t[i]) THEN <<0>>
         ELSE SplitInts(t, i + 1,
                        <<(IF cur = <<>> THEN 0 ELSE cur[1] * 10) + DigitVal(t[i])>>)

-----------------------------------------------------------------------------
(* C1: a variant whose ./do_all exits non-zero does not stop the later      *)
(* variants, and the result of make() records the exit status of the failed *)
(* variant and of every later one.                                          *)

BuildOf(dt) == {i \in Events("./do_all") : trace[i].dt = dt}

C1_FailureRecorded ==
    MakeReturned =>
        \A i \in Events("./do_all") :
            trace[i].rc # 0 =>
                \A k \in 1..Len(datatypes) :
                    datatypes[k] >= trace[i].dt =>
                        /\ BuildOf(datatypes[k]) # {}
                        /\ \A j \in BuildOf(datatypes[k]) :
                               <<datatypes[k], trace[j].rc>> \in statuses_in(make_ret)

-----------------------------------------------------------------------------
(* C2: when SOFTROOTGCC is absent or no BLAS candidate has a root, the      *)
(* lifecycle ends in failure before any variant runs: config.in is never    *)
(* written and no external command is ever invoked.                         *)

ResolutionFails == ~env.SOFTROOTGCC \/ Discoverable = {}

C2_AbortBeforeVariants ==
    ResolutionFails =>
        /\ config_in = <<>>
        /\ trace = <<>>
        /\ pc \in {"configure", "make", "done"}
        /\ pc = "done" => status = "failed"

C2_Witness ==
    /\ env.SOFTROOTGCC
    /\ Discoverable = {}
    /\ pc = "done"
    /\ error = "No known BLAS library found!"

-----------------------------------------------------------------------------
(* C3 as stated: the link flags in blas_linking are those of the first      *)
(* discoverable candidate in the order ACML, ATLAS, IMKL.                   *)

-----------------------------------------------------------------------------
(* C4: in each iteration config.in is written, then ./do_clean is invoked,  *)
(* then ./do_all, which reads the config written for its own variant;       *)
(* iterations do not overlap; a successful run is write, clean, build,      *)
(* write, clean, build, a final clean, and then the copy of lib.            *)

SuccessfulShape ==
    << <<"write", 1>>, <<"./do_clean", 1>>, <<"./do_all", 1>>,
       <<"write", 3>>, <<"./do_clean", 3>>, <<"./do_all", 3>>,
       <<"./do_clean", 0>>, <<"copytree", 0>> >>

C4_WriteCleanBuildOrder ==
    /\ \A i \in Events("./do_all") :
           /\ i >= 3
           /\ trace[i - 1].ev = "./do_clean" /\ trace[i - 1].dt = trace[i].dt
           /\ trace[i - 2].ev = "write" /\ trace[i - 2].dt = trace[i].dt
           /\ trace[i].config = trace[i - 2].config
    /\ \A i \in Events("write") :
           i > 1 => trace[i - 1].ev = "./do_all" /\ trace[i - 1].dt < trace[i].dt
    /\ status = "ok" => Shape = SuccessfulShape

C4_Witness == status = "ok" /\ Len(trace) = 8

-----------------------------------------------------------------------------
(* C5: a non-zero exit status of ./do_clean does not end the variant: the   *)
(* next thing that happens is ./do_all for the same variant, and no run     *)
(* fails on account of the clean step.                                      *)

C5_CleanFailureTolerated ==
    /\ \A i \in Events("./do_clean") :
           (trace[i].rc # 0 /\ trace[i].dt # 0) =>
               IF i = Len(trace)
               THEN pc = "loop" /\ loop_body[stmt] = "build" /\ status = "running"
               ELSE trace[i + 1].ev = "./do_all" /\ trace[i + 1].dt = trace[i].dt
    /\ error # "cmd ./do_clean exited with non-zero status"

C5_Witness ==
    /\ status = "ok"
    /\ \E i \in Events("./do_clean") :
           /\ trace[i].rc # 0
           /\ trace[i].dt = 1
           /\ trace[i + 1].ev = "./do_all"
    /\ \A i \in Events("./do_all") : trace[i].rc = 0

-----------------------------------------------------------------------------
(* C6: a run in which some ./do_all exited non-zero never ends with the     *)
(* final status ok.                                                         *)

C6_FailedBuildNeverOk ==
    status = "ok" => \A i \in Events("./do_all") : trace[i].rc = 0

-----------------------------------------------------------------------------
(* C7: -flto is among the target compile flags exactly when the version in  *)
(* SOFTVERSIONGCC is 4.6 or later.                                          *)

HasFlto(tc) == \E i \in DOMAIN tc : tc[i] = "-flto"

C7_LtoIffAtLeast46 ==
    /\ cfgdict # <<>> =>
           (HasFlto(cfgdict[1].targetcompile) <=> AtLeast46(env.SOFTVERSIONGCC))
    /\ config_in # <<>> =>
           (HasFlto(config_in[1].target_compile) <=> AtLeast46(env.SOFTVERSIONGCC))

C7_Witness ==
    /\ env.SOFTVERSIONGCC = <<"4", ".", "1", "0">>
    /\ config_in # <<>>
    /\ HasFlto(config_in[1].target_compile)

-----------------------------------------------------------------------------
(* C8: with max_tiny_dim = k >= 4, dims_tiny in config.in is the integers   *)
(* 1..k, ascending, separated by single spaces, and every ./do_all sees the *)
(* same value.                                                              *)

C8_TinyDimsOneToK ==
    cfg.max_tiny_dim >= 4 =>
        /\ config_in # <<>> =>
               SplitInts(config_in[1].dims_tiny, 1, <<>>)
                   = [i \in 1..cfg.max_tiny_dim |-> i]
        /\ \A i \in Events("./do_all") :
               trace[i].config[1].dims_tiny = config_in[1].dims_tiny

C8_Witness ==
    /\ cfg.max_tiny_dim = 11
    /\ Cardinality(Events("./do_all")) = 2
    /\ Len(config_in[1].dims_tiny) = 23

-----------------------------------------------------------------------------
(* C9 as stated: the sanity check passes when lib/libsmm_dnn.a and          *)
(* lib/libsmm_znn.a are both installed and otherwise fails listing exactly  *)
(* the missing ones.                                                        *)

C9_BothArtifactsChecked ==
    SanityRan =>
        /\ missing = ExpectedMissing(installed)
        /\ status = "ok" <=> {"dnn", "znn"} \subseteq installed.files

(* C9 amended: that holds when the easyconfig sets no sanityCheckPaths.     *)

C9_DefaultPathsChecked ==
    [][ (pc = "sanitycheck" /\ cfg.sanityCheckPaths = NoPaths) =>
            /\ missing' = ExpectedMissing(installed)
            /\ status' = "ok" <=> {"dnn", "znn"} \subseteq installed.files
            /\ status' = "failed" <=> missing' # <<>> ]_vars

C9_Witness ==
    /\ SanityRan
    /\ cfg.sanityCheckPaths = [files |-> ExpectedArtifacts, dirs |-> <<>>]
    /\ installed.files = {"dnn"}
    /\ missing = <<lib_path("znn")>>
    /\ status = "failed"

-----------------------------------------------------------------------------
(* C10: the config.in that ./do_all reads has data_type 1 for the first     *)
(* build and 3 for the second, and the two contents differ in nothing else. *)

C10_ConfigsDifferOnlyInDataType ==
    /\ \A i \in Events("./do_all") :
           /\ trace[i].config # <<>>
           /\ trace[i].config[1].data_type = (IF trace[i].dt = 1 THEN <<"1">> ELSE <<"3">>)
           /\ trace[i].dt = (IF i = 3 THEN 1 ELSE 3)
    /\ \A i, j \in Events("./do_all") :
           [trace[i].config[1] EXCEPT !.data_type = trace[j].config[1].data_type]
               = trace[j].config[1]

C10_Witness ==
    /\ Cardinality(Events("./do_all")) = 2
    /\ \E i, j \in Events("./do_all") :
           trace[i].config[1].data_type # trace[j].config[1].data_type

====
